---- MODULE Spec2Model ----
(***************************************************************************)
(* Model of roundRobinManualReassignment                                   *)
(* (packages/features/ee/round-robin/roundRobinManualReassignment.ts).     *)
(*                                                                         *)
(* The handler is an async function: every `await` of a collaborator is a  *)
(* point where the call can throw, so the handler is modelled as one step  *)
(* per awaited segment, with `pc` the position of the running call.  The   *)
(* caller runs at most one reassignment of a booking at a time, so calls   *)
(* follow one another.                                                     *)
(***************************************************************************)
EXTENDS Integers, Sequences, FiniteSets, TLC

\* ------------------------------------------------------------------ bounds
MaxCalls == 2

\* ------------------------------------------------------------ static data
\* JavaScript null / undefined of a string-valued field.
Null == "<null>"
\* A nullable numeric id that is null (booking.userId, booking.eventTypeId).
NoId == 0

UserIds == {1, 2, 3}
Roles == {"none", "fixed", "rr"}

\* The user table: name and locale are nullable in the code (`newUser.name || ""`,
\* `newUser.locale || "en"`).
Users ==
  [u \in UserIds |->
     CASE u = 1 -> [id |-> 1, email |-> "u1@x", name |-> "n1", timeZone |-> "tz1",
                    locale |-> "fr", appLink |-> Null, destCal |-> "cal1"]
       [] u = 2 -> [id |-> 2, email |-> "u2@x", name |-> "n2", timeZone |-> "tz2",
                    locale |-> Null, appLink |-> "https://meet/u2", destCal |-> Null]
       [] u = 3 -> [id |-> 3, email |-> "u3@x", name |-> Null, timeZone |-> "tz3",
                    locale |-> "en", appLink |-> Null, destCal |-> "cal3"]]

\* eventType.users, used when eventType.hosts is empty.
EventTypeUsers == <<1, 2>>

OrganizerDefaultConferencingAppType == "conferencing:default"
\* eventType.locations
EventTypeLocations == <<[type |-> OrganizerDefaultConferencingAppType]>>

BookingUid == "uid-1"
EventTypeIdOfBooking == 7

\* JavaScript `a || b` on a nullable string: null and "" are falsy.
OrElse(a, b) == IF a = Null \/ a = "" THEN b ELSE a
\* JavaScript `a ?? b`: only null/undefined are replaced.
Coalesce(a, b) == IF a = Null THEN b ELSE a

\* Array.prototype.find: the index of the first element whose test is true (tests
\* is the sequence of the callback's results), 0 when find returns undefined.
IndexOfFirst(tests) ==
  IF \E i \in 1..Len(tests) : tests[i]
  THEN CHOOSE i \in 1..Len(tests) : tests[i] /\ \A j \in 1..(i - 1) : ~tests[j]
  ELSE 0

RECURSIVE SeqOfSet(_)
\* The elements of a set of records with an `id`, in ascending id order.
SeqOfSet(S) ==
  IF S = {} THEN <<>>
  ELSE LET m == CHOOSE x \in S : \A y \in S : x.id <= y.id
       IN <<m>> \o SeqOfSet(S \ {m})

\* ---------------------------------------------------------------- state
VARIABLES
  hostRole,         \* eventType.hosts: role of each user on the event type
  bookingExists,    \* prisma.booking row exists
  eventTypeExists,  \* getEventTypesFromDB finds the event type
  dbBooking,        \* the persisted booking row (with its attendee rows)
  dbRefs,           \* the persisted booking references
  dbReminders,      \* the pending workflowReminder rows of the booking
  pc,               \* position of the running call
  calls,            \* number of calls started
  newUserId,        \* argument of the running call
  booking,          \* local `booking`
  hasOrganizerChanged,
  originalOrganizer,
  currentRRHost,    \* id of the attendee found at line 87, NoId if none
  evt,              \* local `evt`
  results,          \* referencesToCreate returned by eventManager.reschedule
  syncArgs,         \* arguments of the eventManager.reschedule call
  sent,             \* notifications sent by the running call
  migList,          \* workflowReminders found by handleWorkflowsUpdate
  migIdx,           \* loop index in handleWorkflowsUpdate
  scheduled,        \* scheduleEmailReminder calls of the running call
  deleted,          \* ids handed to deleteScheduledEmailReminder by the running call
  fired,            \* workflows handed to scheduleWorkflowReminders
  effects,          \* collaborator calls made by the running call, in order
  error,            \* the error thrown by the running call, Null if none
  failedAt,         \* position at which a collaborator threw, Null if none
  returned,         \* the value returned by the running call
  pre               \* persisted state when the running call started

vars == <<hostRole, bookingExists, eventTypeExists, dbBooking, dbRefs, dbReminders,
          pc, calls, newUserId, booking, hasOrganizerChanged, originalOrganizer,
          currentRRHost, evt, results, syncArgs, sent, migList, migIdx, scheduled,
          deleted, fired, effects, error, failedAt, returned, pre>>

static == <<hostRole, bookingExists, eventTypeExists>>

\* ------------------------------------------------------- pure helpers
\* eventType.hosts in id order.
EventTypeHostRows(role) ==
  LET ids == SelectSeq(<<1, 2, 3>>, LAMBDA u : role[u] # "none")
  IN [i \in 1..Len(ids) |-> [userId |-> ids[i], isFixed |-> role[ids[i]] = "fixed"]]

\* The users of the event type taken as hosts even when eventType.hosts is not empty.
eventTypeHostsWithUsers(role) ==
  EventTypeHostRows(role)
    \o SelectSeq([i \in 1..Len(EventTypeUsers) |->
                    [userId |-> EventTypeUsers[i], isFixed |-> FALSE]],
                 LAMBDA h : role[h.userId] = "none")

\* const eventTypeHosts = eventType.hosts.length ? eventType.hosts : eventType.users.map(...)
eventTypeHosts(role) ==
  IF Len(EventTypeHostRows(role)) # 0
  THEN EventTypeHostRows(role)
  ELSE [i \in 1..Len(EventTypeUsers) |-> [userId |-> EventTypeUsers[i], isFixed |-> FALSE]]

\* const fixedHost = eventTypeHosts.find((host) => host.isFixed): index, 0 if none.
fixedHost(hosts) == IndexOfFirst([i \in 1..Len(hosts) |-> hosts[i].isFixed])

\* booking.attendees.find((attendee) => eventTypeHosts.some(...)): index, 0 if none.
currentRRHostIndex(hosts, attendees) ==
  IndexOfFirst([k \in 1..Len(attendees) |->
                  \E i \in 1..Len(hosts) :
                    ~hosts[i].isFixed /\ Users[hosts[i].userId].email = attendees[k].email])

\* const newUserHost = eventTypeHosts.find((host) => host.user.id === newUserId)
newUserHost(hosts, n) == IndexOfFirst([i \in 1..Len(hosts) |-> hosts[i].userId = n])

\* hasOrganizerChanged without the Fixed-host test.
OrganizerChangesIgnoringFixedHost(hosts, bookingUserId, n) == bookingUserId # n

\* const hasOrganizerChanged = !fixedHost && booking.userId !== newUserId
OrganizerChanges(hosts, bookingUserId, n) ==
  fixedHost(hosts) = 0 /\ bookingUserId # n

\* Array.prototype.includes compares by identity (SameValueZero): an object literal
\* written in the argument is a fresh object and equals no element of the array.
IncludesFreshObject(arr, obj) == FALSE

\* getLocationValueForDB(location, eventType.locations).bookingLocation
getLocationValueForDB(location, locations) == location

\* lines 116-126
bookingLocation(b, n) ==
  IF IncludesFreshObject(EventTypeLocations, [type |-> OrganizerDefaultConferencingAppType])
  THEN OrElse(Users[n].appLink,
              getLocationValueForDB(OrElse(b.location, "integrations:daily"),
                                    EventTypeLocations))
  ELSE b.location

\* getEventName({host, location, ...}): the title is a function of the host's display
\* name and the location (the other inputs do not change between calls).
getEventName(host, location) == <<host, location>>

\* lines 128-138
newBookingTitle(b, n) ==
  getEventName(OrElse(Users[n].name, "Nameless"),
               OrElse(bookingLocation(b, n), "integrations:daily"))

\* The booking update without the new owner.
BookingUpdateDataWithoutUserId(b, n) ==
  [b EXCEPT !.title = newBookingTitle(b, n),
            !.userPrimaryEmail = Users[n].email]

\* data of prisma.booking.update, lines 140-148
BookingUpdateData(b, n) ==
  [b EXCEPT !.userId = n,
            !.title = newBookingTitle(b, n),
            !.userPrimaryEmail = Users[n].email]

\* The attendee update without the timezone.
AttendeeUpdateDataWithoutTimeZone(a, n) ==
  [a EXCEPT !.name = OrElse(Users[n].name, ""),
            !.email = Users[n].email,
            !.locale = Users[n].locale]

\* data of prisma.attendee.update, lines 151-159
AttendeeUpdateData(a, n) ==
  [a EXCEPT !.name = OrElse(Users[n].name, ""),
            !.email = Users[n].email,
            !.timeZone = Users[n].timeZone,
            !.locale = Users[n].locale]

\* The update applied to every attendee row of the booking.
UpdateEveryAttendeeRow(attendees, id, n) ==
  [i \in 1..Len(attendees) |-> AttendeeUpdateData(attendees[i], n)]

\* prisma.attendee.update({ where: { id }, data })
UpdateAttendeeRow(attendees, id, n) ==
  [i \in 1..Len(attendees) |->
     IF attendees[i].id = id THEN AttendeeUpdateData(attendees[i], n) ELSE attendees[i]]

\* the organizer / person block of a CalendarEvent, lines 196-201 and 258-263
Person(u) ==
  [email |-> Users[u].email,
   name |-> OrElse(Users[u].name, ""),
   timeZone |-> Users[u].timeZone,
   locale |-> OrElse(Users[u].locale, "en")]

\* lines 177-188
attendeeList(attendees) ==
  [i \in 1..Len(attendees) |->
     [email |-> attendees[i].email,
      name |-> attendees[i].name,
      timeZone |-> attendees[i].timeZone,
      locale |-> Coalesce(attendees[i].locale, "en")]]

\* const evt: CalendarEvent = {...}, lines 190-216
BuildEvt(b, n) ==
  [title |-> b.title,
   organizer |-> Person(n),
   attendees |-> attendeeList(b.attendees),
   uid |-> BookingUid,
   cancellationReason |-> "Manually re-assigned"]

\* cloneDeep(evt) with the organizer overwritten, lines 257-263
cancelledEvt(e, prev) == [e EXCEPT !.organizer = Person(prev)]

\* The previous organizer's calendar looked up whatever hasOrganizerChanged.
removeFromCalendarsUnconditional(changed, prev) ==
  IF Users[prev].destCal # Null THEN {Users[prev].destCal} ELSE {}

\* lines 224-228 and 235
removeFromCalendars(changed, prev) ==
  IF changed /\ Users[prev].destCal # Null THEN {Users[prev].destCal} ELSE {}

\* const newReferencesToCreate = structuredClone(results.referencesToCreate)
newReferencesToCreate(res) == res

\* BookingReferenceRepository.replaceBookingReferences({ bookingId, newReferencesToCreate })
replaceBookingReferences(stored, new) == new

\* The where-clause without the new-event trigger.
ReminderSelectedWithoutNewEvent(r) ==
  /\ r.method = "EMAIL"
  /\ r.action = "EMAIL_HOST"
  /\ r.trigger \in {"BEFORE_EVENT", "AFTER_EVENT"}

\* where-clause of prisma.workflowReminder.findMany, lines 311-326
ReminderSelected(r) ==
  /\ r.method = "EMAIL"
  /\ r.action = "EMAIL_HOST"
  /\ r.trigger \in {"BEFORE_EVENT", "NEW_EVENT", "AFTER_EVENT"}

workflowReminders(rows) == SeqOfSet({r \in rows : ReminderSelected(r)})

\* arguments of scheduleEmailReminder, lines 353-368
ReplacementFor(r, n) ==
  [action |-> "EMAIL_HOST",
   triggerEvent |-> r.trigger,
   time |-> r.time,
   timeUnit |-> r.timeUnit,
   sendTo |-> Users[n].email,
   template |-> r.template]

\* the workflow table
Workflows ==
  {[id |-> 1, trigger |-> "NEW_EVENT", activeOnEventType |-> TRUE],
   [id |-> 2, trigger |-> "BEFORE_EVENT", activeOnEventType |-> TRUE],
   [id |-> 3, trigger |-> "NEW_EVENT", activeOnEventType |-> FALSE],
   [id |-> 4, trigger |-> "AFTER_EVENT", activeOnEventType |-> TRUE],
   [id |-> 5, trigger |-> "EVENT_CANCELLED", activeOnEventType |-> TRUE]}

\* where-clause of prisma.workflow.findMany, lines 375-418
newEventWorkflows ==
  {w \in Workflows : w.trigger = "NEW_EVENT" /\ w.activeOnEventType}

\* ------------------------------------------------------------ initial state
\* An attendee row: a guest (who = NoId) or the row the booking flow created for a host.
AttendeeRow(id, who) ==
  IF who = NoId
  THEN [id |-> id, email |-> "guest@x", name |-> "Guest", timeZone |-> "tz0",
        locale |-> Null]
  ELSE [id |-> id, email |-> Users[who].email, name |-> OrElse(Users[who].name, ""),
        timeZone |-> Users[who].timeZone, locale |-> Users[who].locale]

\* The attendee lists a booking starts with: <<guest, host 1>> and <<host 2, host 1>>.
InitialAttendees ==
  {<<AttendeeRow(11, NoId), AttendeeRow(12, 1)>>,
   <<AttendeeRow(11, 2), AttendeeRow(12, 1)>>}

InitialReminders ==
  {[id |-> 1, workflowId |-> 2, method |-> "EMAIL", action |-> "EMAIL_HOST", trigger |-> "BEFORE_EVENT",
    time |-> 24, timeUnit |-> "HOUR", template |-> "REMINDER"],
   [id |-> 2, workflowId |-> 1, method |-> "EMAIL", action |-> "EMAIL_HOST", trigger |-> "NEW_EVENT",
    time |-> 0, timeUnit |-> "MINUTE", template |-> "CUSTOM"],
   [id |-> 3, workflowId |-> 2, method |-> "SMS", action |-> "SMS_ATTENDEE", trigger |-> "BEFORE_EVENT",
    time |-> 1, timeUnit |-> "HOUR", template |-> "REMINDER"],
   [id |-> 4, workflowId |-> 4, method |-> "EMAIL", action |-> "EMAIL_ATTENDEE", trigger |-> "AFTER_EVENT",
    time |-> 1, timeUnit |-> "HOUR", template |-> "REMINDER"],
   [id |-> 6, workflowId |-> 4, method |-> "EMAIL", action |-> "EMAIL_HOST", trigger |-> "AFTER_EVENT",
    time |-> 2, timeUnit |-> "DAY", template |-> "RATING"],
   [id |-> 5, workflowId |-> 5, method |-> "EMAIL", action |-> "EMAIL_HOST", trigger |-> "EVENT_CANCELLED",
    time |-> 0, timeUnit |-> "MINUTE", template |-> "CANCELLED"]}

RefIds == {"ref-a", "ref-b"}
\* what eventManager.reschedule can return as referencesToCreate
SyncResults == {{}, {"ref-b"}, {"ref-a", "ref-b"}}

\* which load of lines 53-73 fails, if any
LoadCases == {"ok", "noBooking", "noEventTypeId", "noEventType"}

NoEvt == <<>>

Snapshot(b, refs, rems) == [booking |-> b, refs |-> refs, reminders |-> rems]

Init ==
  /\ hostRole \in [UserIds -> Roles]
  /\ \E lc \in LoadCases, org \in {NoId} \cup UserIds, atts \in InitialAttendees,
        loc \in {Null, "integrations:zoom"} :
       /\ lc # "ok" => (org = 1 /\ loc = Null)
       /\ org = NoId => loc = Null
       /\ bookingExists = (lc # "noBooking")
       /\ eventTypeExists = (lc # "noEventType")
       /\ dbBooking =
            [userId |-> org,
             eventTypeId |-> IF lc = "noEventTypeId" THEN NoId ELSE EventTypeIdOfBooking,
             title |-> getEventName(IF org = NoId THEN "Nameless"
                                    ELSE OrElse(Users[org].name, "Nameless"),
                                    OrElse(loc, "integrations:daily")),
             userPrimaryEmail |-> IF org = NoId THEN Null ELSE Users[org].email,
             location |-> loc,
             attendees |-> atts]
  /\ dbRefs = {"ref-a"}
  /\ dbReminders = InitialReminders
  /\ pc = "idle"
  /\ calls = 0
  /\ newUserId = NoId
  /\ booking = dbBooking
  /\ hasOrganizerChanged = FALSE
  /\ originalOrganizer = NoId
  /\ currentRRHost = NoId
  /\ evt = NoEvt
  /\ results = {}
  /\ syncArgs = <<>>
  /\ sent = <<>>
  /\ migList = <<>>
  /\ migIdx = 0
  /\ scheduled = <<>>
  /\ deleted = <<>>
  /\ fired = <<>>
  /\ effects = <<>>
  /\ error = Null
  /\ failedAt = Null
  /\ returned = <<>>
  /\ pre = Snapshot(dbBooking, dbRefs, dbReminders)

\* ----------------------------------------------------------------- actions
persisted == <<dbBooking, dbRefs, dbReminders>>
locals == <<newUserId, booking, hasOrganizerChanged, originalOrganizer, currentRRHost>>
outputs == <<evt, results, syncArgs, sent, migList, migIdx, scheduled, deleted, fired>>

\* Validation with the tests of lines 92 and 96 in the other order and the second
\* one lost.
ValidationWithoutFixedTest(n) ==
  LET hosts == eventTypeHosts(hostRole)
      h == newUserHost(hosts, n)
      reads == <<"booking.findUnique", "getEventTypesFromDB">>
  IN IF ~bookingExists \/ dbBooking.userId = NoId
     THEN [error |-> "Booking not found or has no associated user",
           effects |-> <<"booking.findUnique">>]
     ELSE IF dbBooking.eventTypeId = NoId
     THEN [error |-> "Event type not found", effects |-> <<"booking.findUnique">>]
     ELSE IF ~eventTypeExists
     THEN [error |-> "Event type not found", effects |-> reads]
     ELSE IF h = 0
     THEN [error |-> "invalid_round_robin_host", effects |-> reads]
     ELSE [error |-> Null, effects |-> reads]

\* The outcome of lines 53-98 for target n: the error thrown (Null if none) and the
\* collaborator reads made on the way.
Validation(n) ==
  LET hosts == eventTypeHosts(hostRole)
      h == newUserHost(hosts, n)
  IN IF ~bookingExists \/ dbBooking.userId = NoId
     THEN [error |-> "Booking not found or has no associated user",
           effects |-> <<"booking.findUnique">>]
     ELSE IF dbBooking.eventTypeId = NoId
     THEN [error |-> "Event type not found", effects |-> <<"booking.findUnique">>]
     ELSE IF ~eventTypeExists
     THEN [error |-> "Event type not found",
           effects |-> <<"booking.findUnique", "getEventTypesFromDB">>]
     ELSE IF h = 0
     THEN [error |-> "invalid_round_robin_host",
           effects |-> <<"booking.findUnique", "getEventTypesFromDB">>]
     ELSE IF hosts[h].isFixed
     THEN [error |-> "user_is_round_robin_fixed",
           effects |-> <<"booking.findUnique", "getEventTypesFromDB">>]
     ELSE [error |-> Null, effects |-> <<"booking.findUnique", "getEventTypesFromDB">>]

\* roundRobinManualReassignment({ bookingId, newUserId }) is called: lines 53-103.
Reassign(n) ==
  /\ pc \in {"idle", "done", "failed"}
  /\ calls < MaxCalls
  /\ calls' = calls + 1
  /\ newUserId' = n
  /\ LET v == Validation(n)
         hosts == eventTypeHosts(hostRole)
         rr == currentRRHostIndex(hosts, dbBooking.attendees)
     IN /\ error' = v.error
        /\ effects' = v.effects
        /\ pc' = IF v.error = Null THEN "translating" ELSE "failed"
        /\ booking' = dbBooking
        /\ originalOrganizer' = IF v.error = Null THEN dbBooking.userId ELSE NoId
        /\ hasOrganizerChanged' =
             (v.error = Null /\ OrganizerChanges(hosts, dbBooking.userId, n))
        /\ currentRRHost' =
             IF v.error = Null /\ rr # 0 THEN dbBooking.attendees[rr].id ELSE NoId
  /\ evt' = NoEvt
  /\ results' = {}
  /\ syncArgs' = <<>>
  /\ sent' = <<>>
  /\ migList' = <<>>
  /\ migIdx' = 0
  /\ scheduled' = <<>>
  /\ deleted' = <<>>
  /\ failedAt' = Null
  /\ fired' = <<>>
  /\ returned' = <<>>
  /\ pre' = Snapshot(dbBooking, dbRefs, dbReminders)
  /\ UNCHANGED <<static, persisted>>

\* lines 104-105: the two getTranslation calls.
Translate ==
  /\ pc = "translating"
  /\ pc' = "mutating"
  /\ effects' = effects \o <<"getTranslation", "getTranslation">>
  /\ UNCHANGED <<static, persisted, calls, locals, outputs, error, failedAt, returned, pre>>

\* lines 107-160: the organizer update, or the attendee update, or nothing.
Mutate ==
  /\ pc = "mutating"
  /\ pc' = "building"
  /\ IF hasOrganizerChanged
     THEN /\ dbBooking' = BookingUpdateData(dbBooking, newUserId)
          /\ booking' = dbBooking'
          /\ effects' = Append(effects, "booking.update")
     ELSE IF currentRRHost # NoId
     THEN /\ dbBooking' =
               [dbBooking EXCEPT
                  !.attendees = UpdateAttendeeRow(dbBooking.attendees, currentRRHost,
                                                  newUserId)]
          /\ booking' = booking
          /\ effects' = Append(effects, "attendee.update")
     ELSE UNCHANGED <<dbBooking, booking, effects>>
  /\ UNCHANGED <<static, dbRefs, dbReminders, calls, newUserId, hasOrganizerChanged,
                 originalOrganizer, currentRRHost, outputs, error, failedAt, returned, pre>>

\* lines 162-228: the reads that build evt and the arguments of the sync.
Build ==
  /\ pc = "building"
  /\ pc' = "syncing"
  /\ evt' = <<BuildEvt(booking, newUserId)>>
  /\ effects' = effects \o <<"getDestinationCalendar", "getTeamMembers", "getTranslation",
                             "credential.findMany">>
                        \o (IF hasOrganizerChanged THEN <<"destinationCalendar.findFirst">>
                            ELSE <<>>)
  /\ UNCHANGED <<static, persisted, calls, locals, results, syncArgs, sent, migList,
                 migIdx, scheduled, deleted, fired, error, failedAt, returned, pre>>

\* lines 230-236: eventManager.reschedule returns.
Sync ==
  /\ pc = "syncing"
  /\ pc' = "replacing"
  /\ \E r \in SyncResults : results' = r
  /\ syncArgs' = <<[evt |-> evt[1], uid |-> BookingUid,
                    changedOrganizer |-> hasOrganizerChanged,
                    removeFrom |-> removeFromCalendars(hasOrganizerChanged,
                                                       originalOrganizer)]>>
  /\ effects' = Append(effects, "eventManager.reschedule")
  /\ UNCHANGED <<static, persisted, calls, locals, evt, sent, migList, migIdx, scheduled,
                 deleted, fired, error, failedAt, returned, pre>>

\* The new references added to the stored ones.
ReplaceReferencesKeepingOld ==
  /\ pc = "replacing"
  /\ pc' = "notifyScheduled"
  /\ dbRefs' = dbRefs \cup newReferencesToCreate(results)
  /\ effects' = Append(effects, "replaceBookingReferences")
  /\ UNCHANGED <<static, dbBooking, dbReminders, calls, locals, outputs, error, failedAt,
                 returned, pre>>

\* The scheduled notification sent before the references are replaced.
ReplaceReferencesAfterScheduledMail ==
  /\ pc = "replacing"
  /\ pc' = "notifyCancelled"
  /\ sent' = Append(sent, [kind |-> "scheduled", evt |-> evt[1], to |-> newUserId])
  /\ dbRefs' = replaceBookingReferences(dbRefs, newReferencesToCreate(results))
  /\ effects' = effects \o <<"sendRoundRobinScheduledEmailsAndSMS",
                             "replaceBookingReferences">>
  /\ UNCHANGED <<static, dbBooking, dbReminders, calls, locals, evt, results, syncArgs,
                 migList, migIdx, scheduled, deleted, fired, error, failedAt, returned,
                 pre>>

\* lines 238-243
ReplaceReferences ==
  /\ pc = "replacing"
  /\ pc' = "notifyScheduled"
  /\ dbRefs' = replaceBookingReferences(dbRefs, newReferencesToCreate(results))
  /\ effects' = Append(effects, "replaceBookingReferences")
  /\ UNCHANGED <<static, dbBooking, dbReminders, calls, locals, outputs, error, failedAt,
                 returned, pre>>

\* lines 246-254
SendScheduled ==
  /\ pc = "notifyScheduled"
  /\ pc' = "notifyCancelled"
  /\ sent' = Append(sent, [kind |-> "scheduled", evt |-> evt[1], to |-> newUserId])
  /\ effects' = Append(effects, "sendRoundRobinScheduledEmailsAndSMS")
  /\ UNCHANGED <<static, persisted, calls, locals, evt, results, syncArgs, migList, migIdx,
                 scheduled, deleted, fired, error, failedAt, returned, pre>>

\* The organizer overwritten on evt itself, without cloneDeep.
SendCancelledMutatingEvt ==
  /\ pc = "notifyCancelled"
  /\ evt' = <<cancelledEvt(evt[1], originalOrganizer)>>
  /\ sent' = Append(sent, [kind |-> "cancelled", evt |-> evt'[1],
                           to |-> originalOrganizer])
  /\ effects' = Append(effects, "sendRoundRobinCancelledEmailsAndSMS")
  /\ IF hasOrganizerChanged
     THEN pc' = "migrating" /\ returned' = returned
     ELSE pc' = "done" /\ returned' = <<booking>>
  /\ UNCHANGED <<static, persisted, calls, locals, results, syncArgs, migList, migIdx,
                 scheduled, deleted, fired, error, failedAt, pre>>

\* The cancelled notification followed by the migration whatever hasOrganizerChanged.
SendCancelledThenAlwaysMigrate ==
  /\ pc = "notifyCancelled"
  /\ sent' = Append(sent, [kind |-> "cancelled",
                           evt |-> cancelledEvt(evt[1], originalOrganizer),
                           to |-> originalOrganizer])
  /\ effects' = Append(effects, "sendRoundRobinCancelledEmailsAndSMS")
  /\ pc' = "migrating"
  /\ UNCHANGED <<static, persisted, calls, locals, evt, results, syncArgs, migList, migIdx,
                 scheduled, deleted, fired, error, failedAt, returned, pre>>

\* lines 257-277, then line 279 and, when the organizer did not change, line 290.
SendCancelled ==
  /\ pc = "notifyCancelled"
  /\ sent' = Append(sent, [kind |-> "cancelled",
                           evt |-> cancelledEvt(evt[1], originalOrganizer),
                           to |-> originalOrganizer])
  /\ effects' = Append(effects, "sendRoundRobinCancelledEmailsAndSMS")
  /\ IF hasOrganizerChanged
     THEN pc' = "migrating" /\ returned' = returned
     ELSE pc' = "done" /\ returned' = <<booking>>
  /\ UNCHANGED <<static, persisted, calls, locals, evt, results, syncArgs, migList, migIdx,
                 scheduled, deleted, fired, error, failedAt, pre>>

\* handleWorkflowsUpdate, lines 310-346: the reminders to migrate.
FindReminders ==
  /\ pc = "migrating"
  /\ migList' = workflowReminders(dbReminders)
  /\ migIdx' = 1
  /\ pc' = IF Len(migList') = 0 THEN "newEventWorkflows" ELSE "migSchedule"
  /\ effects' = effects \o <<"workflowReminder.findMany", "getBookerBaseUrl">>
  /\ UNCHANGED <<static, persisted, calls, locals, evt, results, syncArgs, sent, scheduled,
                 deleted, fired, error, failedAt, returned, pre>>

\* The guard of line 352 false: nothing is scheduled before the delete.
ScheduleReplacementSkipped ==
  /\ pc = "migSchedule"
  /\ pc' = "migDelete"
  /\ UNCHANGED <<static, persisted, calls, locals, outputs, effects, error, failedAt,
                 returned, pre>>

\* lines 349-369: the replacement of the reminder at hand.
ScheduleReplacement ==
  /\ pc = "migSchedule"
  /\ pc' = "migDelete"
  /\ scheduled' = Append(scheduled, ReplacementFor(migList[migIdx], newUserId))
  /\ effects' = Append(effects, "scheduleEmailReminder")
  /\ UNCHANGED <<static, persisted, calls, locals, evt, results, syncArgs, sent, migList,
                 migIdx, deleted, fired, error, failedAt, returned, pre>>

\* line 371, and the loop's next turn.
DeleteReminder ==
  /\ pc = "migDelete"
  /\ dbReminders' = {r \in dbReminders : r.id # migList[migIdx].id}
  /\ migIdx' = migIdx + 1
  /\ pc' = IF migIdx' > Len(migList) THEN "newEventWorkflows" ELSE "migSchedule"
  /\ deleted' = Append(deleted, migList[migIdx].id)
  /\ effects' = Append(effects, "deleteScheduledEmailReminder")
  /\ UNCHANGED <<static, dbBooking, dbRefs, calls, locals, evt, results, syncArgs, sent,
                 migList, scheduled, fired, error, failedAt, returned, pre>>

\* lines 375-430, then line 290.
ScheduleNewEventWorkflows ==
  /\ pc = "newEventWorkflows"
  /\ fired' = Append(fired, [workflows |-> newEventWorkflows, evt |-> evt[1]])
  /\ effects' = effects \o <<"workflow.findMany", "scheduleWorkflowReminders">>
  /\ pc' = "done"
  /\ returned' = <<booking>>
  /\ UNCHANGED <<static, persisted, calls, locals, evt, results, syncArgs, sent, migList,
                 migIdx, scheduled, deleted, error, failedAt, pre>>

\* positions at which the call awaits a collaborator
Awaiting ==
  {"translating", "mutating", "building", "syncing", "replacing", "notifyScheduled",
   "notifyCancelled", "migrating", "migSchedule", "migDelete", "newEventWorkflows"}

\* The error of the awaited call caught and the handler going on.
CollaboratorFailureSwallowed ==
  /\ pc \in Awaiting
  /\ error = Null
  /\ error' = "collaborator_failure"
  /\ failedAt' = pc
  /\ UNCHANGED <<static, persisted, pc, calls, locals, outputs, effects, returned, pre>>

\* The awaited collaborator call throws: the error propagates out of the handler.
CollaboratorFails ==
  /\ pc \in Awaiting
  /\ pc = "mutating" => (hasOrganizerChanged \/ currentRRHost # NoId)
  /\ pc' = "failed"
  /\ error' = "collaborator_failure"
  /\ failedAt' = pc
  /\ UNCHANGED <<static, persisted, calls, locals, outputs, effects, returned, pre>>

Next ==
  \/ \E n \in UserIds : Reassign(n)
  \/ Translate
  \/ Mutate
  \/ Build
  \/ Sync
  \/ ReplaceReferences
  \/ SendScheduled
  \/ SendCancelled
  \/ FindReminders
  \/ ScheduleReplacement
  \/ DeleteReminder
  \/ ScheduleNewEventWorkflows
  \/ CollaboratorFails

Spec == Init /\ [][Next]_vars

\* ------------------------------------------------------------------ claims
Hosts == eventTypeHosts(hostRole)
HasFixedHost == \E u \in UserIds : hostRole[u] = "fixed"
Succeeded == pc = "done"

\* The booking and its event type load (lines 53-73 throw nothing).
Loaded ==
  /\ bookingExists
  /\ dbBooking.userId # NoId
  /\ dbBooking.eventTypeId # NoId
  /\ eventTypeExists

WriteEffects ==
  {"booking.update", "attendee.update", "replaceBookingReferences",
   "scheduleEmailReminder", "deleteScheduledEmailReminder", "scheduleWorkflowReminders"}

LoadEffects == {"booking.findUnique", "getEventTypesFromDB"}

EffectSet == {effects[i] : i \in 1..Len(effects)}

NothingPersisted ==
  /\ dbBooking = pre.booking
  /\ dbRefs = pre.refs
  /\ dbReminders = pre.reminders

\* C1: when the event type has a Fixed host, no step of any reassignment changes the
\* persisted organizer (booking.userId), so it keeps its value through every
\* sequence of reassignments.
C1_OrganizerKeptWithFixedHost ==
  [][HasFixedHost => dbBooking'.userId = dbBooking.userId]_vars

\* A second successful reassignment on an event type with a Fixed host, to a target
\* that is not the organizer.
C1_Witness ==
  /\ Succeeded
  /\ HasFixedHost
  /\ calls = 2
  /\ newUserId # dbBooking.userId
  /\ "attendee.update" \in EffectSet

\* C2: with no Fixed host, a successful reassignment to H leaves the persisted
\* organizer id equal to H, whether or not H was the organizer before.
C2_OrganizerIsTargetWithoutFixedHost ==
  (Succeeded /\ ~HasFixedHost) => dbBooking.userId = newUserId

\* A second successful reassignment without Fixed host that changed the organizer.
C2_Witness ==
  /\ Succeeded
  /\ ~HasFixedHost
  /\ calls = 2
  /\ pre.booking.userId # newUserId
  /\ dbBooking.userId = newUserId

TargetIsFixed == newUserId \in UserIds /\ hostRole[newUserId] = "fixed"

\* C3: once the booking and the event type are loaded, a reassignment whose target
\* is a Fixed host has failed with user_is_round_robin_fixed, having made no
\* collaborator call but the two loads and having written nothing.
C3_FixedTargetRejected ==
  (pc # "idle" /\ Loaded /\ TargetIsFixed) =>
    /\ pc = "failed"
    /\ error = "user_is_round_robin_fixed"
    /\ EffectSet \subseteq LoadEffects
    /\ NothingPersisted
    /\ sent = <<>>
    /\ syncArgs = <<>>
    /\ returned = <<>>

\* A reassignment to a Fixed host was rejected on an event type that also has a
\* round-robin host.
C3_Witness ==
  /\ pc = "failed"
  /\ Loaded
  /\ TargetIsFixed
  /\ \E u \in UserIds : hostRole[u] = "rr"
  /\ error = "user_is_round_robin_fixed"

\* The target is not among the event type's hosts or, when the host list is empty,
\* not among the event type's users.
TargetAbsent ==
  IF \E u \in UserIds : hostRole[u] # "none"
  THEN hostRole[newUserId] = "none"
  ELSE \A i \in 1..Len(EventTypeUsers) : EventTypeUsers[i] # newUserId

\* C4: once the booking and the event type are loaded, a reassignment whose target
\* is not a host has failed with invalid_round_robin_host and has issued no write.
C4_AbsentTargetRejected ==
  (pc # "idle" /\ Loaded /\ TargetAbsent) =>
    /\ pc = "failed"
    /\ error = "invalid_round_robin_host"
    /\ EffectSet \cap WriteEffects = {}
    /\ NothingPersisted
    /\ scheduled = <<>>
    /\ deleted = <<>>
    /\ returned = <<>>

\* A target that is one of eventType.users was rejected because the host list is
\* not empty and does not hold it.
C4_Witness ==
  /\ pc = "failed"
  /\ Loaded
  /\ TargetAbsent
  /\ newUserId \in {EventTypeUsers[i] : i \in 1..Len(EventTypeUsers)}
  /\ error = "invalid_round_robin_host"

\* C5: after a successful reassignment the stored references are exactly the
\* referencesToCreate the call's eventManager.reschedule returned.
C5_ReferencesAreSyncResult ==
  Succeeded => dbRefs = results

\* A successful second reassignment whose sync returned a set that does not hold a
\* reference stored before it.
C5_Witness ==
  /\ Succeeded
  /\ calls = 2
  /\ pre.refs \ results # {}
  /\ results # {}
  /\ dbRefs = results

\* The attendee's email is the email of a round-robin (non-Fixed) host.
MatchesRoundRobinHost(a) ==
  \E i \in 1..Len(Hosts) : ~Hosts[i].isFixed /\ Users[Hosts[i].userId].email = a.email

\* The first attendee, in the booking's order before the call, that matches a
\* round-robin host; 0 if none.
FirstMatchBefore ==
  IF \E k \in 1..Len(pre.booking.attendees) :
       MatchesRoundRobinHost(pre.booking.attendees[k])
  THEN CHOOSE k \in 1..Len(pre.booking.attendees) :
         /\ MatchesRoundRobinHost(pre.booking.attendees[k])
         /\ \A j \in 1..(k - 1) : ~MatchesRoundRobinHost(pre.booking.attendees[j])
  ELSE 0

OrganizerFieldsUnwritten ==
  /\ dbBooking.userId = pre.booking.userId
  /\ dbBooking.title = pre.booking.title
  /\ dbBooking.userPrimaryEmail = pre.booking.userPrimaryEmail
  /\ "booking.update" \notin EffectSet

\* C6 as stated: with a Fixed host and an attendee matching a round-robin host, a
\* successful reassignment to U2 persists that attendee's name, email, timezone and
\* locale as U2's, changes no other attendee and writes no organizer field.
C6_AttendeeCarriesTargetFields ==
  (Succeeded /\ HasFixedHost /\ FirstMatchBefore # 0) =>
    /\ dbBooking.attendees =
         [pre.booking.attendees EXCEPT ![FirstMatchBefore] =
            [id |-> pre.booking.attendees[FirstMatchBefore].id,
             email |-> Users[newUserId].email,
             name |-> Users[newUserId].name,
             timeZone |-> Users[newUserId].timeZone,
             locale |-> Users[newUserId].locale]]
    /\ OrganizerFieldsUnwritten

\* C6 amended: the first matching attendee gets U2's email, timezone and locale and
\* U2's name, or the empty string when U2 has no name; no other attendee changes
\* and no organizer field is written.
C6_AttendeeCarriesTargetFieldsOrEmptyName ==
  (Succeeded /\ HasFixedHost /\ FirstMatchBefore # 0) =>
    /\ dbBooking.attendees =
         [pre.booking.attendees EXCEPT ![FirstMatchBefore] =
            [id |-> pre.booking.attendees[FirstMatchBefore].id,
             email |-> Users[newUserId].email,
             name |-> IF Users[newUserId].name = Null THEN ""
                      ELSE Users[newUserId].name,
             timeZone |-> Users[newUserId].timeZone,
             locale |-> Users[newUserId].locale]]
    /\ OrganizerFieldsUnwritten

\* A successful substitution of the second of two attendees, the first one being
\* the Fixed host's, by a target other than the host it stood for.
C6_Witness ==
  /\ Succeeded
  /\ HasFixedHost
  /\ FirstMatchBefore = 2
  /\ pre.booking.attendees[2].email # Users[newUserId].email
  /\ dbBooking.attendees[2].email = Users[newUserId].email
  /\ dbBooking.attendees[1] = pre.booking.attendees[1]

\* The reminders of the booking that the migration is about.
HostEmailReminder(r) ==
  /\ r.method = "EMAIL"
  /\ r.action = "EMAIL_HOST"
  /\ r.trigger \in {"BEFORE_EVENT", "NEW_EVENT", "AFTER_EVENT"}

\* C7: after a successful reassignment that changed the organizer, every reminder
\* that was pending with method email, action EMAIL_HOST and trigger before-, new-
\* or after-event has a replacement scheduled to the new organizer's email with the
\* same trigger, time offset and template, and has been deleted.
C7_RemindersMigrated ==
  (Succeeded /\ hasOrganizerChanged) =>
    \A r \in pre.reminders :
      HostEmailReminder(r) =>
        /\ \E i \in 1..Len(scheduled) :
             /\ scheduled[i].sendTo = Users[dbBooking.userId].email
             /\ scheduled[i].action = "EMAIL_HOST"
             /\ scheduled[i].triggerEvent = r.trigger
             /\ scheduled[i].time = r.time
             /\ scheduled[i].timeUnit = r.timeUnit
             /\ scheduled[i].template = r.template
        /\ \E i \in 1..Len(deleted) : deleted[i] = r.id
        /\ r \notin dbReminders

\* An organizer change that migrated three pending host-email reminders.
C7_Witness ==
  /\ Succeeded
  /\ hasOrganizerChanged
  /\ Len(scheduled) = 3
  /\ Len(deleted) = 3
  /\ dbBooking.userId = newUserId

MigrationInvoked ==
  \/ EffectSet \cap {"workflowReminder.findMany", "scheduleEmailReminder",
                     "deleteScheduledEmailReminder", "workflow.findMany",
                     "scheduleWorkflowReminders"} # {}
  \/ scheduled # <<>>
  \/ deleted # <<>>
  \/ fired # <<>>

\* No Fixed host exists and the organizer before the call is not the target.
OrganizerChanged == ~HasFixedHost /\ pre.booking.userId # newUserId

\* C8: a reassignment invokes the workflow migration only if the organizer changed,
\* and a successful reassignment that changed the organizer has invoked it.
C8_MigrationIffOrganizerChanged ==
  /\ MigrationInvoked => OrganizerChanged
  /\ Succeeded => (OrganizerChanged => MigrationInvoked /\ Len(fired) = 1)

\* A successful second reassignment that ran the migration with nothing left to
\* migrate, and fired the new-event workflows.
C8_Witness ==
  /\ Succeeded
  /\ calls = 2
  /\ OrganizerChanged
  /\ MigrationInvoked
  /\ scheduled = <<>>
  /\ Len(fired) = 1

\* C9: the booking returned by a successful reassignment has the organizer, title,
\* organizer email and attendee rows that storage holds at the moment of return,
\* and a failed reassignment returns nothing.
C9_ReturnedIsPersisted ==
  /\ Succeeded =>
       /\ Len(returned) = 1
       /\ returned[1].userId = dbBooking.userId
       /\ returned[1].title = dbBooking.title
       /\ returned[1].userPrimaryEmail = dbBooking.userPrimaryEmail
       /\ returned[1].attendees = dbBooking.attendees
  /\ pc = "failed" => returned = <<>>

NoMigration ==
  /\ ~MigrationInvoked
  /\ dbReminders = pre.reminders

\* C10: a collaborator failure ends the call, and nothing of a later step has
\* happened: after a failed sync the stored references are those of before the
\* call, nothing is sent and no migration runs; after a failed reference
\* replacement nothing is sent; after a failed notification no migration runs.
C10_FailureAbortsLaterSteps ==
  error = "collaborator_failure" =>
    /\ pc = "failed"
    /\ returned = <<>>
    /\ failedAt = "syncing" => (dbRefs = pre.refs /\ sent = <<>> /\ NoMigration)
    /\ failedAt = "replacing" => (sent = <<>> /\ NoMigration)
    /\ failedAt = "notifyScheduled" => (sent = <<>> /\ NoMigration)
    /\ failedAt = "notifyCancelled" => (Len(sent) = 1 /\ NoMigration)

\* The sync failed after the organizer had been rewritten.
C10_Witness ==
  /\ pc = "failed"
  /\ failedAt = "syncing"
  /\ hasOrganizerChanged
  /\ dbBooking.userId # pre.booking.userId
  /\ dbRefs = pre.refs
\* C11: the event representation handed to the calendar sync and to the
\* notifications carries the persisted title and, attendee by attendee, the
\* persisted name and email of the booking as the Mutating step left it.
C11_EvtBuiltFromUpdatedBooking ==
  evt # NoEvt =>
    /\ evt[1].title = dbBooking.title
    /\ Len(evt[1].attendees) = Len(dbBooking.attendees)
    /\ \A i \in 1..Len(dbBooking.attendees) :
         /\ evt[1].attendees[i].email = dbBooking.attendees[i].email
         /\ evt[1].attendees[i].name = dbBooking.attendees[i].name

\* The replacement at hand exists for reminder r.
ReplacementScheduled(r) ==
  \E i \in 1..Len(scheduled) :
    /\ scheduled[i].sendTo = Users[newUserId].email
    /\ scheduled[i].triggerEvent = r.trigger
    /\ scheduled[i].time = r.time
    /\ scheduled[i].timeUnit = r.timeUnit
    /\ scheduled[i].template = r.template

\* C12: at every point of a reassignment, an aborted one included, each host-email
\* reminder that was pending when the call started either is still pending or has
\* its replacement scheduled.
C12_ScheduleThenCancel ==
  pc # "idle" =>
    \A r \in pre.reminders :
      HostEmailReminder(r) => (r \in dbReminders \/ ReplacementScheduled(r))

\* The migration aborted on the delete of the second reminder: the first is
\* replaced and gone, the second is replaced and still pending.
C12_Witness ==
  /\ pc = "failed"
  /\ failedAt = "migDelete"
  /\ migIdx = 2
  /\ Len(scheduled) = 2
  /\ Len(deleted) = 1
  /\ migList[1] \notin dbReminders
  /\ migList[2] \in dbReminders
\* The jobs addressed to the new organizer for workflow w by the running call: the
\* replacements scheduled for w's pending reminders and w's fresh evaluation.
JobsForWorkflow(w) ==
  Cardinality({i \in 1..Len(scheduled) : migList[i].workflowId = w})
    + Cardinality({j \in 1..Len(fired) : \E x \in fired[j].workflows : x.id = w})

\* C13: a successful reassignment that changed the organizer leaves, for every
\* workflow, at most one job addressed to the new organizer.
C13_NoDuplicateJobs ==
  (Succeeded /\ hasOrganizerChanged) =>
    \A w \in Workflows : JobsForWorkflow(w.id) <= 1

\* C14: eventManager.reschedule is called with the booking's uid, the organizer
\* change as its flag, and as calendars to remove from the previous organizer's
\* destination calendar when the organizer changed and that calendar exists,
\* nothing otherwise.
C14_SyncArguments ==
  syncArgs # <<>> =>
    /\ syncArgs[1].uid = BookingUid
    /\ syncArgs[1].changedOrganizer = OrganizerChanged
    /\ syncArgs[1].removeFrom =
         IF OrganizerChanged /\ Users[pre.booking.userId].destCal # Null
         THEN {Users[pre.booking.userId].destCal}
         ELSE {}

\* The sync was called for an organizer change away from a user who has a
\* destination calendar.
C14_Witness ==
  /\ syncArgs # <<>>
  /\ OrganizerChanged
  /\ syncArgs[1].changedOrganizer
  /\ syncArgs[1].removeFrom = {"cal1"}

\* C15: the cancelled notification names the previous organizer, and the
\* representation the handler holds afterwards, the one of the scheduled
\* notification and the one handed to the migration are the one sent to the sync,
\* with the target as organizer.
C15_CancelledPayloadIsACopy ==
  Len(sent) = 2 =>
    /\ sent[2].kind = "cancelled"
    /\ sent[2].evt.organizer.email = Users[pre.booking.userId].email
    /\ sent[1].kind = "scheduled"
    /\ sent[1].evt = syncArgs[1].evt
    /\ evt[1] = syncArgs[1].evt
    /\ evt[1].organizer.email = Users[newUserId].email
    /\ \A j \in 1..Len(fired) : fired[j].evt = syncArgs[1].evt
    /\ [sent[2].evt EXCEPT !.organizer = evt[1].organizer] = evt[1]

\* The migration ran after a cancelled notification naming another person than the
\* target.
C15_Witness ==
  /\ Succeeded
  /\ Len(sent) = 2
  /\ Len(fired) = 1
  /\ sent[2].evt.organizer # evt[1].organizer
  /\ fired[1].evt.organizer.email = Users[newUserId].email
\* The phase of the orchestration a collaborator call belongs to; reads that occur
\* in several phases have none.
Phase(e) ==
  CASE e \in LoadEffects -> 0
    [] e \in {"booking.update", "attendee.update"} -> 1
    [] e = "eventManager.reschedule" -> 2
    [] e = "replaceBookingReferences" -> 3
    [] e = "sendRoundRobinScheduledEmailsAndSMS" -> 4
    [] e = "sendRoundRobinCancelledEmailsAndSMS" -> 5
    [] e \in {"workflowReminder.findMany", "getBookerBaseUrl", "scheduleEmailReminder",
              "deleteScheduledEmailReminder", "workflow.findMany",
              "scheduleWorkflowReminders"} -> 6
    [] OTHER -> -1

\* C16: the calls of a reassignment occur in the order validation, organizer or
\* attendee write, calendar sync, reference replacement, scheduled notification,
\* cancelled notification, migration; no write is made by a call whose validation
\* failed; and a booking is returned only after sync, replacement, both
\* notifications and, when the organizer changed, the write and the migration.
C16_EffectsInOrder ==
  /\ LET phases == SelectSeq([i \in 1..Len(effects) |-> Phase(effects[i])],
                             LAMBDA p : p >= 0)
     IN \A i \in 1..(Len(phases) - 1) :
          /\ phases[i] <= phases[i + 1]
          /\ phases[i + 1] \in 1..5 => phases[i] < phases[i + 1]
  /\ EffectSet \cap WriteEffects # {} =>
       /\ Loaded
       /\ ~TargetAbsent
       /\ ~TargetIsFixed
       /\ {effects[1], effects[2]} = LoadEffects
  /\ returned # <<>> =>
       /\ Succeeded
       /\ {"eventManager.reschedule", "replaceBookingReferences",
           "sendRoundRobinScheduledEmailsAndSMS",
           "sendRoundRobinCancelledEmailsAndSMS"} \subseteq EffectSet
       /\ OrganizerChanged =>
            {"booking.update", "scheduleWorkflowReminders"} \subseteq EffectSet

\* A reassignment went through every phase, the migration of three reminders
\* included.
C16_Witness ==
  /\ Succeeded
  /\ returned # <<>>
  /\ OrganizerChanged
  /\ Len(deleted) = 3
  /\ "scheduleWorkflowReminders" \in EffectSet

\* The location the title is to be computed with.
ExpectedTitleLocation ==
  IF /\ \E i \in 1..Len(EventTypeLocations) :
          EventTypeLocations[i].type = OrganizerDefaultConferencingAppType
     /\ Users[newUserId].appLink # Null
  THEN Users[newUserId].appLink
  ELSE IF pre.booking.location = Null THEN "integrations:daily"
       ELSE pre.booking.location

\* C17: when the organizer changes, the title is recomputed with the new
\* organizer's default conferencing link if the event type lists the organizer's
\* default conferencing app and the link exists, and otherwise with the booking's
\* location or, when it has none, integrations:daily.
C17_TitleLocation ==
  "booking.update" \in EffectSet => dbBooking.title[2] = ExpectedTitleLocation

\* C18: the organizer of the event representation is the organizer persisted on
\* the booking after the Mutating step.
C18_EvtOrganizerIsPersistedOrganizer ==
  evt # NoEvt => evt[1].organizer.email = Users[dbBooking.userId].email

\* C19: no cancelled notification goes to the person who is the booking's
\* persisted organizer.
C19_CancelledNotToOrganizer ==
  \A i \in 1..Len(sent) :
    sent[i].kind = "cancelled" => sent[i].to # dbBooking.userId
\* The attendee's email is the email of some host of the event type.
SharesHostEmail(a) ==
  \E i \in 1..Len(Hosts) : Users[Hosts[i].userId].email = a.email

\* Exactly one attendee matches a round-robin host and no other attendee shares an
\* email with a host.
SingleRoundRobinAttendee(attendees) ==
  /\ Cardinality({k \in 1..Len(attendees) : MatchesRoundRobinHost(attendees[k])}) = 1
  /\ \A k \in 1..Len(attendees) :
       SharesHostEmail(attendees[k]) => MatchesRoundRobinHost(attendees[k])

\* C20: with a Fixed host, a booking in which exactly one attendee matches a
\* round-robin host (and no other attendee shares a host's email) stays so through
\* every step, with the same number of attendees, and after a successful
\* reassignment that attendee carries the target's email.
C20_SingleRoundRobinAttendeeKept ==
  /\ [][(HasFixedHost /\ SingleRoundRobinAttendee(dbBooking.attendees)) =>
          /\ SingleRoundRobinAttendee(dbBooking'.attendees)
          /\ Len(dbBooking'.attendees) = Len(dbBooking.attendees)]_vars
  /\ []((Succeeded /\ HasFixedHost /\ SingleRoundRobinAttendee(pre.booking.attendees)) =>
          \A k \in 1..Len(dbBooking.attendees) :
            MatchesRoundRobinHost(dbBooking.attendees[k]) =>
              dbBooking.attendees[k].email = Users[newUserId].email)

\* A second successful reassignment moved the single round-robin attendee, already
\* moved by the first, to another host.
C20_Witness ==
  /\ Succeeded
  /\ HasFixedHost
  /\ calls = 2
  /\ SingleRoundRobinAttendee(pre.booking.attendees)
  /\ SingleRoundRobinAttendee(dbBooking.attendees)
  /\ pre.booking.attendees[2].email # "u1@x"
  /\ dbBooking.attendees[2].email = Users[newUserId].email
  /\ dbBooking.attendees[2].email # pre.booking.attendees[2].email
====
